---- MODULE Spec2Model ----
(***************************************************************************)
(* Model of app/backend/cxp.ts: the activation filter, the transport       *)
(* factory with its shared relay control channel, and the CXP controller   *)
(* that createController() builds and the registry wiring feeds.           *)
(***************************************************************************)
EXTENDS Integers, Sequences, FiniteSets, TLC

(***************************************************************************)
(* Bounds of the model.                                                    *)
(***************************************************************************)
\* Client instances created over a run of the controller.
MaxClients == 3
\* Length of a manifest's activationEvents list in the filter's inputs.
MaxEvents == 2
\* Length of the extension list in the filter's inputs.
MaxExtensions == 2
\* Notification requests handled, and actions offered by one request.
MaxRequests == 2
MaxActions == 2
\* Rows of the host page's code view, line numbers on them, decorations applied.
MaxRows == 2
MaxLine == 2
MaxDecorations == 2
\* setEnvironment calls made by the registry wiring.
MaxCalls == 3
\* environmentFilter calls made one after the other by a caller of its own.
MaxFilterCalls == 4

(***************************************************************************)
(* State.                                                                  *)
(***************************************************************************)
VARIABLES
    environment,    \* the Environment Store: the snapshot last given to setEnvironment
    filtered,       \* the last value returned by environmentFilter
    clients,        \* every Client the controller has created, in creation order
    clientEntries,  \* controller.clientEntries: the clients the controller owns now
    posted,         \* messages posted on CONTROL, in order
    listeners,      \* CONTROL.onMessage listeners, in order of addListener
    answers,        \* per posted request: the relay's response, or "none"
    portsConnected, \* chrome.runtime.connect({name: response.portName}) calls made
    sourcegraphURL, \* sourcegraphURLSubject: last value emitted, and whether it completed
    webSockets,     \* URLs of the WebSockets created by new WebSocket(url.href)
    consoleErrors,  \* console.error calls: initializationFailedHandler, the wiring
    controlChannels, \* chrome.runtime.connect({name: 'CONTROL'}) calls made
    postedOn,       \* per posted request: the control channel it was posted on
    messageRequests, \* showMessageRequests notifications handled, with their resolve calls
    host,           \* the host page's code view: one record per DOM row
    disposables,    \* the disposables applyDecoration has returned
    configuredExtensions, \* latest value of viewerConfiguredExtensions, if any
    rootAndComponent, \* latest value of the rootAndComponent subject, if any
    setEnvironmentCalls, \* CXP_CONTROLLER.setEnvironment calls made by the wiring
    subscription,   \* the wiring's sources and its subscription: open, or how they ended
    filterCalls     \* environmentFilter calls made by a caller of its own, with results

\* The state of the page: dialogs and decorations.
uiVars == <<messageRequests, host, disposables>>

\* The registry wiring: the sources of combineLatest and the calls it made.
wiringVars == <<configuredExtensions, rootAndComponent, setEnvironmentCalls,
                subscription>>

vars == <<environment, filtered, clients, clientEntries, posted, listeners,
          answers, portsConnected, sourcegraphURL, webSockets, consoleErrors,
          controlChannels, postedOn, uiVars, wiringVars, filterCalls>>

(***************************************************************************)
(* Values.                                                                 *)
(***************************************************************************)
Languages == {"go", "python"}

\* `onLanguage:${component.document.languageId}`
OnLanguage(languageId) == "onLanguage:" \o languageId

ActivationEvents == {"*"} \cup {OnLanguage(l) : l \in Languages}

\* Environment.component: null, or a component with document.languageId.
NoComponent == [isNull |-> TRUE, languageId |-> ""]
Component(l) == [isNull |-> FALSE, languageId |-> l]
Components == {NoComponent} \cup {Component(l) : l \in Languages}

\* CXPExtensionWithManifest.manifest: SourcegraphExtension | null | ErrorLike
NullManifest ==
    [kind |-> "null", message |-> "", activationEvents |-> <<>>, platform |-> ""]
ErrorManifest(msg) ==
    [kind |-> "error", message |-> msg, activationEvents |-> <<>>, platform |-> ""]
Manifest(events, platformType) ==
    [kind |-> "valid", message |-> "", activationEvents |-> events,
     platform |-> platformType]

\* isErrorLike(value), imported from ./errors
isErrorLike(value) == value.kind = "error"

\* configuredExtensionToCXPExtensionWithManifest: {id, settings, isEnabled, manifest}
CXPExtension(id, enabled, manifest) ==
    [id |-> id, isEnabled |-> enabled, manifest |-> manifest]

Ids(extensions) == {extensions[i].id : i \in 1..Len(extensions)}

(***************************************************************************)
(* environmentFilter                                                       *)
(***************************************************************************)
\* e === '*' || (!!component && e === `onLanguage:${component.document.languageId}`)
EventMatchesLanguageOnly(e, component) ==
    ~component.isNull /\ e = OnLanguage(component.languageId)
EventMatchesAnyLanguage(e, component) ==
    \/ e = "*"
    \/ (~component.isNull /\ e # "*")
EventMatches(e, component) ==
    \/ e = "*"
    \/ (~component.isNull /\ e = OnLanguage(component.languageId))

\* activationEvents.some(e => ...), left to right
RECURSIVE some(_, _)
some(events, component) ==
    IF events = <<>> THEN FALSE
    ELSE IF EventMatches(Head(events), component) THEN TRUE
    ELSE some(Tail(events), component)

\* The predicate handed to extensions.filter(x => ...)
ShouldActivateIgnoringEnabled(x, component) ==
    IF x.manifest.kind # "null" /\ ~isErrorLike(x.manifest)
    THEN some(x.manifest.activationEvents, component)
    ELSE FALSE
ShouldActivateIgnoringManifestError(x, component) ==
    IF x.isEnabled /\ x.manifest.kind # "null"
    THEN (x.manifest.kind = "error") \/ some(x.manifest.activationEvents, component)
    ELSE FALSE
ShouldActivate(x, component) ==
    IF x.isEnabled /\ x.manifest.kind # "null" /\ ~isErrorLike(x.manifest)
    THEN some(x.manifest.activationEvents, component)
    ELSE FALSE

Reverse(s) == [i \in 1..Len(s) |-> s[Len(s) + 1 - i]]
environmentFilterReordering(nextEnvironment) ==
    [nextEnvironment EXCEPT
        !.extensions = Reverse(SelectSeq(nextEnvironment.extensions,
                                 LAMBDA x : ShouldActivate(x, nextEnvironment.component)))]
\* A filter with hidden state: it also keeps what its previous call returned.
environmentFilterRemembering(nextEnvironment) ==
    [nextEnvironment EXCEPT
        !.extensions = SelectSeq(nextEnvironment.extensions,
            LAMBDA x :
                \/ ShouldActivate(x, nextEnvironment.component)
                \/ /\ filterCalls # <<>>
                   /\ x.id \in Ids(filterCalls[Len(filterCalls)].output.extensions))]
environmentFilter(nextEnvironment) ==
    [nextEnvironment EXCEPT
        !.extensions = SelectSeq(nextEnvironment.extensions,
                                 LAMBDA x : ShouldActivate(x, nextEnvironment.component))]

\* EMPTY_ENVIRONMENT of the controller
EMPTY_ENVIRONMENT == [root |-> "", component |-> NoComponent, extensions |-> <<>>]

Last(s) == s[Len(s)]

\* ClientState of a client: the last value its state observable emitted.
State(c) == Last(clients[c].history)

(***************************************************************************)
(* createPlatformMessageTransports and createMessageTransports             *)
(***************************************************************************)
\* JSON.stringify(extension.id)
Quoted(id) == "\"" \o id \o "\""

\* The message createPlatformMessageTransports posts: {extensionID: id, platform}
ControlRequest(extension) ==
    [extensionID |-> extension.id, platform |-> extension.manifest.platform]

createMessageTransportsRelayingUnknown(extension) ==
    IF extension.manifest.kind = "null"
    THEN [result |-> "throw",
          error |-> "unable to connect to extension " \o Quoted(extension.id)
                    \o ": no manifest found"]
    ELSE IF isErrorLike(extension.manifest)
    THEN [result |-> "throw",
          error |-> "unable to connect to extension " \o Quoted(extension.id)
                    \o ": invalid manifest: " \o extension.manifest.message]
    ELSE IF extension.manifest.platform = "websocket"
    THEN [result |-> "relay", error |-> ""]
    ELSE IF extension.manifest.platform = "tcp"
    THEN [result |-> "tcp", error |-> ""]
    ELSE IF extension.manifest.platform = "bundle"
    THEN [result |-> "relay", error |-> ""]
    ELSE [result |-> "relay", error |-> ""]

\* What one call of createMessageTransports(extension, options) does: it throws,
\* or returns a rejected promise, or posts a request on CONTROL and adds a listener
\* (a pending promise).
createMessageTransports(extension) ==
    IF extension.manifest.kind = "null"
    THEN [result |-> "throw",
          error |-> "unable to connect to extension " \o Quoted(extension.id)
                    \o ": no manifest found"]
    ELSE IF isErrorLike(extension.manifest)
    THEN [result |-> "throw",
          error |-> "unable to connect to extension " \o Quoted(extension.id)
                    \o ": invalid manifest: " \o extension.manifest.message]
    ELSE IF extension.manifest.platform = "websocket"
    THEN [result |-> "relay", error |-> ""]
    ELSE IF extension.manifest.platform = "tcp"
    THEN [result |-> "tcp", error |-> ""]
    ELSE IF extension.manifest.platform = "bundle"
    THEN [result |-> "relay", error |-> ""]
    ELSE [result |-> "reject",
          error |-> "Unable to connect to CXP extension " \o Quoted(extension.id)
                    \o ": type " \o Quoted(extension.manifest.platform)
                    \o " is not supported"]

\* The tcp branch: new URL(urlString) with the protocol, pathname and search
\* parameters the code sets.
NoURL == [protocol |-> "", host |-> ""]
BaseOrigins ==
    {[protocol |-> "https:", host |-> "sourcegraph.test"],
     [protocol |-> "http:", host |-> "localhost:3080"]}

BridgeURL(urlString, extension, root) ==
    [protocol |-> IF urlString.protocol = "https:" THEN "wss:" ELSE "ws:",
     host |-> urlString.host,
     pathname |-> "/.api/lsp",
     mode |-> extension.id,
     rootUri |-> root]

(***************************************************************************)
(* Client: the protocol client behind one Connection Entry.                *)
(***************************************************************************)
\* A transport: the state of its promise, the port it is on, whether it was closed.
Pending == [status |-> "pending", port |-> 0, closed |-> FALSE]

NewClient(extension, root) ==
    [extension |-> extension, root |-> root, history |-> <<"Initial">>,
     unsubscribed |-> FALSE, transport |-> Pending]

\* The transport promise resolved: the client starts the initialize handshake.
TransportResolved(client, port) ==
    [client EXCEPT !.transport = [status |-> "resolved", port |-> port,
                                  closed |-> FALSE],
                   !.history = Append(@, "Initializing")]

\* The transport promise rejected: activation fails.  (When createMessageTransports
\* throws instead of returning a promise, activate records the status "threw".)
TransportRejected(client) ==
    [client EXCEPT !.transport = [status |-> "rejected", port |-> 0,
                                  closed |-> FALSE],
                   !.history = @ \o <<"Initializing", "ActivateFailed">>]

\* The tcp promise once sourcegraphURLSubject has completed: toPromise() yields the
\* last value; without one, new URL(undefined) throws and the promise rejects.
TcpSettled(client, subject) ==
    IF subject.value = NoURL
    THEN TransportRejected(client)
    ELSE [client EXCEPT !.transport = [status |-> "socket", port |-> 0,
                                       closed |-> FALSE]]

\* client.activate(): Initial -> Connecting, then createMessageTransports().
activate(client, subject) ==
    LET connecting == [client EXCEPT !.history = Append(@, "Connecting")]
        made == createMessageTransports(client.extension)
    IN  CASE made.result = "relay" -> connecting
          [] made.result = "tcp" ->
                IF subject.completed THEN TcpSettled(connecting, subject)
                ELSE connecting
          [] made.result = "throw" ->
                [TransportRejected(connecting) EXCEPT !.transport.status = "threw"]
          [] OTHER -> TransportRejected(connecting)

unsubscribeCancelling(client) ==
    [client EXCEPT !.unsubscribed = TRUE,
                   !.history = IF Last(@) = "Active" THEN Append(@, "ShuttingDown")
                               ELSE IF Last(@) \in {"Connecting", "Initializing"}
                               THEN Append(@, "Stopped")
                               ELSE @]
unsubscribeAtOnce(client) ==
    [client EXCEPT !.unsubscribed = TRUE,
                   !.history = IF Last(@) \in {"Stopped", "ActivateFailed"} THEN @
                               ELSE Append(@, "ShuttingDown")]
\* client.unsubscribe(): an Active client starts shutting down at once; one whose
\* activation is in flight is left to complete and is stopped once Active.
unsubscribe(client) ==
    [client EXCEPT !.unsubscribed = TRUE,
                   !.history = IF Last(@) = "Active" THEN Append(@, "ShuttingDown")
                               ELSE @]

initializationFailedHandlerRetrying(extension, err) ==
    [logged |-> <<extension.id, err>>, retry |-> TRUE]
\* initializationFailedHandler of createController's clientOptions: logs the
\* extension id with the error and returns false (no retry).
initializationFailedHandler(extension, err) ==
    [logged |-> <<extension.id, err>>, retry |-> FALSE]

(***************************************************************************)
(* The relay control channel.                                              *)
(***************************************************************************)
onMessageListenerInverted(client, response) ==
    IF client.transport.status # "pending" THEN client
    ELSE IF response.kind # "error" THEN TransportRejected(client)
    ELSE TransportResolved(client, response.request)
\* createPlatformMessageTransports: CONTROL is connected once, when the module is
\* evaluated, and the function returned posts every request on it.  Given the
\* number of control channels opened so far, the channel a request is posted on
\* and the number of control channels opened after the call.
createPlatformMessageTransportsConnecting(channels) ==
    [channel |-> channels + 1, channels |-> channels + 1]
createPlatformMessageTransports(channels) ==
    [channel |-> 1, channels |-> channels]

\* k successive calls of createPlatformMessageTransports.
RECURSIVE Relayed(_, _)
Relayed(channels, k) ==
    IF k = 0 THEN [channel |-> 0, channels |-> channels]
    ELSE createPlatformMessageTransports(Relayed(channels, k - 1).channels)

\* The listener createPlatformMessageTransports adds to CONTROL.onMessage, run for
\* one response on the promise of the client that added it: 'error' in response
\* rejects, anything else resolves with a transport on the port the response
\* names.  Settling a settled promise changes nothing.
onMessageListener(client, response) ==
    IF client.transport.status # "pending" THEN client
    ELSE IF response.kind = "error" THEN TransportRejected(client)
    ELSE TransportResolved(client, response.request)

\* chrome.runtime.connect({name: response.portName}) calls one response causes:
\* every listener on CONTROL runs, settled or not.
ConnectsFor(response) ==
    IF response.kind = "error" THEN 0 ELSE Len(listeners)

Range(s) == {s[i] : i \in 1..Len(s)}

\* The sequences over S of length at most n.
SeqsUpTo(S, n) == UNION {[1..k -> S] : k \in 0..n}

(***************************************************************************)
(* The controller built by createController().                             *)
(***************************************************************************)
\* The environmentFilter option createController passes to the Controller.
NoEnvironmentFilter(nextEnvironment) == nextEnvironment
controllerEnvironmentFilter(nextEnvironment) == environmentFilter(nextEnvironment)

\* Reconciliation of the Connection Entries against the filtered environment.
Wanted(next) == Ids(next.extensions)
RemovedNone(next) == {}
Removed(next) == {c \in clientEntries : clients[c].extension.id \notin Wanted(next)}
KeptOrStopped(next) ==
    (clientEntries \ Removed(next))
        \cup {c \in 1..Len(clients) :
                /\ State(c) = "Stopped"
                /\ clients[c].extension.id \in Wanted(next)
                /\ \A d \in clientEntries : clients[d].extension.id # clients[c].extension.id}
Kept(next) == clientEntries \ Removed(next)
Created(next) ==
    SelectSeq(next.extensions,
              LAMBDA x : x.id \notin {clients[c].extension.id : c \in Kept(next)})

CXP_CONTROLLER_setEnvironment(nextEnvironment) ==
    LET next == controllerEnvironmentFilter(nextEnvironment)
        n == Len(clients)
        created == Created(next)
        fresh == [k \in 1..Len(created) |-> n + k]
        activated == [k \in 1..Len(created) |->
                        activate(NewClient(created[k], nextEnvironment.root),
                                 sourcegraphURL)]
        relayed == SelectSeq(fresh, LAMBDA c :
                        createMessageTransports(created[c - n]).result = "relay")
        sockets == SelectSeq(fresh, LAMBDA c :
                        activated[c - n].transport.status = "socket")
    IN  /\ n + Len(created) <= MaxClients
        /\ environment' = nextEnvironment
        /\ filtered' = next
        /\ clients' = [c \in 1..(n + Len(created)) |->
                         IF c > n THEN activated[c - n]
                         ELSE IF c \in Removed(next) THEN unsubscribe(clients[c])
                         ELSE clients[c]]
        /\ clientEntries' = Kept(next) \cup Range(fresh)
        /\ posted' = posted \o [k \in 1..Len(relayed) |->
                                   ControlRequest(created[relayed[k] - n])]
        /\ postedOn' = postedOn \o [k \in 1..Len(relayed) |->
                                       Relayed(controlChannels, k).channel]
        /\ controlChannels' = Relayed(controlChannels, Len(relayed)).channels
        /\ listeners' = listeners \o relayed
        /\ answers' = answers \o [k \in 1..Len(relayed) |-> "none"]
        /\ webSockets' = webSockets \o [k \in 1..Len(sockets) |->
                            BridgeURL(sourcegraphURL.value, created[sockets[k] - n],
                                      nextEnvironment.root)]
        /\ UNCHANGED <<portsConnected, sourcegraphURL, consoleErrors, uiVars,
                       filterCalls>>

\* setEnvironment called with a snapshot, the wiring's sources left as they are.
setEnvironment(nextEnvironment) ==
    /\ CXP_CONTROLLER_setEnvironment(nextEnvironment)
    /\ UNCHANGED <<wiringVars, filterCalls>>

\* A response to request i arrives on CONTROL: every listener runs.
CONTROLonMessage(i, kind) ==
    LET response == [request |-> i, kind |-> kind]
    IN  /\ i \in 1..Len(posted)
        /\ answers[i] = "none"
        /\ answers' = [answers EXCEPT ![i] = kind]
        /\ clients' = [c \in 1..Len(clients) |->
                         IF c \in Range(listeners)
                         THEN onMessageListener(clients[c], response)
                         ELSE clients[c]]
        /\ portsConnected' = portsConnected + ConnectsFor(response)
        /\ UNCHANGED <<environment, filtered, clientEntries, posted, listeners,
                       sourcegraphURL, webSockets, consoleErrors,
                   controlChannels, postedOn, uiVars, wiringVars, filterCalls>>

\* sourcegraphURLSubject.next(urlString)
sourcegraphURLNext(urlString) ==
    /\ ~sourcegraphURL.completed
    /\ sourcegraphURL' = [sourcegraphURL EXCEPT !.value = urlString]
    /\ UNCHANGED <<environment, filtered, clients, clientEntries, posted, listeners,
                   answers, portsConnected, webSockets, consoleErrors,
                   controlChannels, postedOn, uiVars, wiringVars, filterCalls>>

\* Clients whose createMessageTransports awaits from(sourcegraphURLSubject).toPromise()
AwaitingURL ==
    {c \in 1..Len(clients) :
        /\ clients[c].transport.status = "pending"
        /\ createMessageTransports(clients[c].extension).result = "tcp"}

\* sourcegraphURLSubject.complete(): the toPromise() promises settle.
sourcegraphURLComplete ==
    LET done == [sourcegraphURL EXCEPT !.completed = TRUE]
        waiting == SelectSeq([c \in 1..Len(clients) |-> c],
                             LAMBDA c : c \in AwaitingURL /\ done.value # NoURL)
    IN  /\ ~sourcegraphURL.completed
        /\ sourcegraphURL' = done
        /\ clients' = [c \in 1..Len(clients) |->
                         IF c \in AwaitingURL THEN TcpSettled(clients[c], done)
                         ELSE clients[c]]
        /\ webSockets' = webSockets \o [k \in 1..Len(waiting) |->
                            BridgeURL(done.value, clients[waiting[k]].extension,
                                      clients[waiting[k]].root)]
        /\ UNCHANGED <<environment, filtered, clientEntries, posted, listeners,
                       answers, portsConnected, consoleErrors,
                   controlChannels, postedOn, uiVars, wiringVars, filterCalls>>

\* The WebSocket of a tcp client opens, or fails to.
WebSocketSettled(c, opened) ==
    /\ c \in 1..Len(clients)
    /\ clients[c].transport.status = "socket"
    /\ clients' = [clients EXCEPT ![c] = IF opened THEN TransportResolved(@, 0)
                                         ELSE TransportRejected(@)]
    /\ UNCHANGED <<environment, filtered, clientEntries, posted, listeners, answers,
                   portsConnected, sourcegraphURL, webSockets, consoleErrors,
                   controlChannels, postedOn, uiVars, wiringVars, filterCalls>>

\* The server answers the initialize request of client c.
InitializeResult(c, ok) ==
    /\ c \in 1..Len(clients)
    /\ State(c) = "Initializing"
    /\ IF ok
       THEN /\ clients' = [clients EXCEPT ![c].history = Append(@, "Active")]
            /\ UNCHANGED consoleErrors
       ELSE LET handled == initializationFailedHandler(clients[c].extension,
                                                       "initialize failed")
            IN  /\ consoleErrors' = Append(consoleErrors, handled.logged)
                /\ clients' = IF handled.retry THEN clients
                              ELSE [clients EXCEPT
                                      ![c].history = Append(@, "ActivateFailed")]
    /\ UNCHANGED <<environment, filtered, clientEntries, posted, listeners, answers,
                   portsConnected, sourcegraphURL, webSockets,
                   controlChannels, postedOn, uiVars, wiringVars, filterCalls>>

\* A client that was unsubscribed while activating has become Active: it is stopped.
StopUnsubscribed(c) ==
    /\ c \in 1..Len(clients)
    /\ State(c) = "Active"
    /\ clients[c].unsubscribed
    /\ clients' = [clients EXCEPT ![c].history = Append(@, "ShuttingDown")]
    /\ UNCHANGED <<environment, filtered, clientEntries, posted, listeners, answers,
                   portsConnected, sourcegraphURL, webSockets, consoleErrors,
                   controlChannels, postedOn, uiVars, wiringVars, filterCalls>>

\* The shutdown of client c completes: its transport is closed and the client
\* is Stopped.
ShutdownComplete(c) ==
    /\ c \in 1..Len(clients)
    /\ State(c) = "ShuttingDown"
    /\ clients' = [clients EXCEPT ![c].history = Append(@, "Stopped"),
                                  ![c].transport.closed = TRUE]
    /\ UNCHANGED <<environment, filtered, clientEntries, posted, listeners, answers,
                   portsConnected, sourcegraphURL, webSockets, consoleErrors,
                   controlChannels, postedOn, uiVars, wiringVars, filterCalls>>

(***************************************************************************)
(* The snapshots the registry wiring hands to setEnvironment.              *)
(***************************************************************************)
Root == "git://repo"

ExtA == CXPExtension("A", TRUE, Manifest(<<OnLanguage("go")>>, "bundle"))
ExtB == CXPExtension("B", TRUE, Manifest(<<"*">>, "websocket"))
ExtC == CXPExtension("C", TRUE, Manifest(<<OnLanguage("python")>>, "websocket"))
\* Extensions that must never be activated.
ExtN == CXPExtension("N", TRUE, NullManifest)
ExtE == CXPExtension("E", TRUE, ErrorManifest("fetch failed"))
ExtD == CXPExtension("D", FALSE, Manifest(<<"*">>, "websocket"))

Registry == <<ExtN, ExtA, ExtD, ExtB, ExtE, ExtC>>

Snapshot(extensions, component) ==
    [root |-> Root, component |-> component, extensions |-> extensions]

\* The snapshot with the single extension B and no component.
SingleExtension == Snapshot(<<ExtB>>, NoComponent)

\* A snapshot none of whose extensions may be activated.
NothingToActivate == Snapshot(<<ExtN, ExtD>>, NoComponent)

Snapshots ==
    {NothingToActivate, SingleExtension}
        \cup {Snapshot(Registry, Component(l)) : l \in Languages}

\* No notification has been handled and no decoration applied.
UIInit ==
    /\ messageRequests = <<>>
    /\ host = <<>>
    /\ disposables = <<>>

\* A source that has not emitted, and one whose latest value is value.
NotEmitted == [emitted |-> FALSE, value |-> <<>>]
Latest(value) == [emitted |-> TRUE, value |-> value]

\* The sources of the wiring.
Sources == {"viewerConfiguredExtensions", "rootAndComponent"}

\* Both sources are open and the subscriber of combineLatest is subscribed.
Subscribed ==
    [viewerConfiguredExtensions |-> "open", rootAndComponent |-> "open",
     subscribed |-> TRUE]

\* Neither source of the wiring has emitted.
WiringInit ==
    /\ configuredExtensions = NotEmitted
    /\ rootAndComponent = NotEmitted
    /\ setEnvironmentCalls = 0
    /\ subscription = Subscribed

(***************************************************************************)
(* The registry wiring: combineLatest(viewerConfiguredExtensions,          *)
(* rootAndComponent) and its subscriber.                                   *)
(***************************************************************************)
\* A ConfiguredExtension of the registry, here the one the extension x comes from.
ConfiguredExtension(x) ==
    [extensionID |-> x.id, settings |-> "{}", isEnabled |-> x.isEnabled,
     manifest |-> x.manifest]

\* The extension record handed to the controller (its settings are not modelled).
configuredExtensionToCXPExtensionWithManifest(x) ==
    CXPExtension(x.extensionID, x.isEnabled, x.manifest)

\* configuredExtensions.map(configuredExtensionToCXPExtensionWithManifest)
map(list) ==
    [i \in 1..Len(list) |-> configuredExtensionToCXPExtensionWithManifest(list[i])]

\* {...rootAndComponent, extensions: configuredExtensions.map(...)}
Combined(list, context) ==
    [root |-> context.root, component |-> context.component, extensions |-> map(list)]

ConfiguredLists ==
    {[i \in 1..Len(l) |-> ConfiguredExtension(l[i])] :
        l \in {<<>>, <<ExtB>>, <<ExtN, ExtD>>, Registry}}

RootsAndComponents ==
    {[root |-> r, component |-> c] : r \in {Root, "git://fork"}, c \in Components}

\* combineLatest after one of its sources has emitted: nothing until both have a
\* value, then the subscriber runs once, with the latest value of each.  Once a
\* source has failed the combined stream has ended and the subscriber no longer
\* runs.
combineLatest(list, context) ==
    IF subscription.subscribed /\ list.emitted /\ context.emitted
    THEN /\ CXP_CONTROLLER_setEnvironment(Combined(list.value, context.value))
         /\ setEnvironmentCalls' = setEnvironmentCalls + 1
    ELSE UNCHANGED <<environment, filtered, clients, clientEntries, posted, listeners,
                     answers, portsConnected, sourcegraphURL, webSockets,
                     consoleErrors, controlChannels, postedOn, uiVars,
                     setEnvironmentCalls, filterCalls>>

\* A subscriber of viewerConfiguredExtensions alone, which takes root and component
\* from the controller's current environment.
viewerConfiguredExtensionsNextStandalone(list) ==
    /\ setEnvironmentCalls < MaxCalls
    /\ subscription.viewerConfiguredExtensions = "open"
    /\ configuredExtensions' = Latest(list)
    /\ UNCHANGED <<rootAndComponent, subscription>>
    /\ IF subscription.subscribed
       THEN /\ CXP_CONTROLLER_setEnvironment(
                    [environment EXCEPT !.extensions = map(list)])
            /\ setEnvironmentCalls' = setEnvironmentCalls + 1
       ELSE combineLatest(Latest(list), rootAndComponent)
\* viewerConfiguredExtensions emits a list of configured extensions.
viewerConfiguredExtensionsNext(list) ==
    /\ setEnvironmentCalls < MaxCalls
    /\ subscription.viewerConfiguredExtensions = "open"
    /\ configuredExtensions' = Latest(list)
    /\ UNCHANGED <<rootAndComponent, subscription>>
    /\ combineLatest(Latest(list), rootAndComponent)

\* rootAndComponent.next(context)
rootAndComponentNext(context) ==
    /\ setEnvironmentCalls < MaxCalls
    /\ subscription.rootAndComponent = "open"
    /\ rootAndComponent' = Latest(context)
    /\ UNCHANGED <<configuredExtensions, subscription>>
    /\ combineLatest(configuredExtensions, Latest(context))

\* The subscriber's error callback:
\* console.error('Error fetching viewer configured extensions via GraphQL: %O', err)
subscribeError(err) ==
    <<"Error fetching viewer configured extensions via GraphQL: %O", err>>

\* A source fails with err: the combined stream fails with it, the subscriber's
\* error callback runs and the subscription to both sources ends.
SourceError(source, err) ==
    /\ source \in Sources
    /\ subscription[source] = "open"
    /\ subscription' = [subscription EXCEPT ![source] = "errored",
                                            !.subscribed = FALSE]
    /\ consoleErrors' = IF subscription.subscribed
                        THEN Append(consoleErrors, subscribeError(err))
                        ELSE consoleErrors
    /\ UNCHANGED <<environment, filtered, clients, clientEntries, posted, listeners,
                   answers, portsConnected, sourcegraphURL, webSockets,
                   controlChannels, postedOn, uiVars, configuredExtensions,
                   rootAndComponent, setEnvironmentCalls, filterCalls>>

\* A source completes: it emits no more; the combined stream goes on with the
\* source's latest value and completes once both sources have completed.  The
\* subscriber has no completion callback.
SourceComplete(source) ==
    /\ source \in Sources
    /\ subscription[source] = "open"
    /\ subscription' =
          [subscription EXCEPT
              ![source] = "completed",
              !.subscribed = @ /\ \E other \in Sources \ {source} :
                                      subscription[other] = "open"]
    /\ UNCHANGED <<environment, filtered, clients, clientEntries, posted, listeners,
                   answers, portsConnected, sourcegraphURL, webSockets,
                   consoleErrors, controlChannels, postedOn, uiVars,
                   configuredExtensions, rootAndComponent, setEnvironmentCalls,
                   filterCalls>>

(***************************************************************************)
(* Specification of the controller.                                        *)
(***************************************************************************)
Init ==
    /\ environment = EMPTY_ENVIRONMENT
    /\ filtered = EMPTY_ENVIRONMENT
    /\ clients = <<>>
    /\ clientEntries = {}
    /\ posted = <<>>
    /\ listeners = <<>>
    /\ answers = <<>>
    /\ portsConnected = 0
    /\ sourcegraphURL = [value |-> NoURL, completed |-> FALSE]
    /\ webSockets = <<>>
    /\ consoleErrors = <<>>
    /\ controlChannels = 1
    /\ postedOn = <<>>
    /\ UIInit
    /\ WiringInit
    /\ filterCalls = <<>>

Next ==
    \/ \E s \in Snapshots : setEnvironment(s)
    \/ \E i \in 1..MaxClients, kind \in {"portName", "error"} : CONTROLonMessage(i, kind)
    \/ \E c \in 1..MaxClients, ok \in BOOLEAN : InitializeResult(c, ok)
    \/ \E c \in 1..MaxClients : StopUnsubscribed(c)
    \/ \E c \in 1..MaxClients : ShutdownComplete(c)

Spec == Init /\ [][Next]_vars

\* The controller when a client that is to be stopped is stopped and a shutdown
\* that has begun completes: both are steps of the client's own teardown.  Nothing
\* is assumed of the relay or of an extension's server: a request may stay
\* unanswered, and the server may refuse the initialize request.
TeardownSpec ==
    /\ Init
    /\ [][Next]_vars
    /\ \A c \in 1..MaxClients :
          /\ WF_vars(StopUnsubscribed(c))
          /\ WF_vars(ShutdownComplete(c))

\* The extension ids that own a Connection Entry, and those the filter activates.
EntryIds == {clients[c].extension.id : c \in clientEntries}
ActiveIds(env) == Ids(environmentFilter(env).extensions)
EntryOf(id) == CHOOSE c \in clientEntries : clients[c].extension.id = id

(***************************************************************************)
(* Notification requests: the showMessageRequests subscription of          *)
(* createController.                                                       *)
(***************************************************************************)
Titles == {"Yes", "No"}

\* A MessageActionItem; data tells two items with one title apart.
ActionItem(title, data) == [title |-> title, data |-> data]

\* The actions of a request: undefined, or a list of items.
NoActions == [defined |-> FALSE, items |-> <<>>]
Actions(items) == [defined |-> TRUE, items |-> items]

ActionLists ==
    {NoActions} \cup
    UNION {{Actions([i \in 1..k |-> ActionItem(t[i], i)]) : t \in [1..k -> Titles]} :
            k \in 0..MaxActions}

\* What prompt() returns: null when the dialog is cancelled, else the text entered.
Cancelled == [cancelled |-> TRUE, text |-> ""]
Entered(text) == [cancelled |-> FALSE, text |-> text]
PromptValues == {Cancelled} \cup {Entered(t) : t \in Titles \cup {"Maybe", ""}}

\* actions.find(a => a.title === value) || null: the first item with the title, as
\* the argument of resolve: <<a>> for an action a, <<>> for null.
RECURSIVE find(_, _)
find(items, value) ==
    IF items = <<>> THEN <<>>
    ELSE IF ~value.cancelled /\ Head(items).title = value.text THEN <<Head(items)>>
    ELSE find(Tail(items), value)

\* The subscriber: the dialog it shows and the resolve calls it makes, in order.
showMessageRequestsDefaulting(actions, value) ==
    IF ~actions.defined \/ Len(actions.items) = 0
    THEN [dialog |-> "alert", resolved |-> << <<>> >>]
    ELSE [dialog |-> "prompt",
          resolved |-> <<IF find(actions.items, value) = <<>>
                         THEN <<actions.items[1]>>
                         ELSE find(actions.items, value)>>]
showMessageRequests(actions, value) ==
    IF ~actions.defined \/ Len(actions.items) = 0
    THEN [dialog |-> "alert", resolved |-> << <<>> >>]
    ELSE [dialog |-> "prompt", resolved |-> <<find(actions.items, value)>>]

\* controller.showMessageRequests emits a request; the user answers the prompt, if
\* one is shown, with value.
showMessageRequest(actions, value) ==
    /\ Len(messageRequests) < MaxRequests
    /\ messageRequests' = Append(messageRequests,
            [actions |-> actions, value |-> value,
             handled |-> showMessageRequests(actions, value)])
    /\ UNCHANGED <<environment, filtered, clients, clientEntries, posted, listeners,
                   answers, portsConnected, sourcegraphURL, webSockets, consoleErrors,
                   controlChannels, postedOn, host, disposables, wiringVars, filterCalls>>

(***************************************************************************)
(* Decorations: applyDecoration and mergeDisposables.                      *)
(***************************************************************************)
\* A row of the file element: the td with data-line-number, and its next element
\* sibling, the line element (if any) with its inline background colour ("" when
\* none is set) and its child nodes.
Row(lineNumber, hasLine, backgroundColor) ==
    [lineNumber |-> lineNumber, hasLine |-> hasLine,
     backgroundColor |-> backgroundColor, children |-> <<>>]

Rows ==
    {Row(n, h, b) : n \in 1..MaxLine, h \in BOOLEAN, b \in {"", "yellow"}}

FileElements == SeqsUpTo(Rows, MaxRows)

\* decoration.after: undefined, or the attachment to render after the line.
NoAfter == [defined |-> FALSE, contentText |-> "", backgroundColor |-> "",
            linkURL |-> "", color |-> ""]
After(contentText, backgroundColor, linkURL, color) ==
    [defined |-> TRUE, contentText |-> contentText,
     backgroundColor |-> backgroundColor, linkURL |-> linkURL, color |-> color]

\* A TextDocumentDecoration: range.start.line, backgroundColor ("" when undefined)
\* and after.
Decoration(line, backgroundColor, after) ==
    [line |-> line, backgroundColor |-> backgroundColor, after |-> after]

Decorations ==
    {Decoration(l, b, a) :
        l \in 0..(MaxLine - 1),
        b \in {"", "red"},
        a \in {NoAfter, After("note", "gray", "", ""),
                After("note", "", "https://example.test/", "blue")}}

\* fileElement.querySelectorAll('td[data-line-number="N"]'): the rows matched.
querySelectorAll(fileElement, ghLineNumber) ==
    SelectSeq([r \in 1..Len(fileElement) |-> r],
              LAMBDA r : fileElement[r].lineNumber = ghLineNumber)

\* The node appended to the line element: the span, wrapped in a link when
\* after.linkURL is set.  id is the identity of the node.
Annotation(after, id) ==
    [id |-> id,
     tag |-> IF after.linkURL # "" THEN "a" ELSE "span",
     href |-> after.linkURL,
     color |-> IF after.linkURL # "" THEN after.color ELSE "",
     backgroundColor |-> after.backgroundColor,
     textContent |-> after.contentText]

\* One disposable pushed by applyDecoration, run on the file element.
dispose(fileElement, disposable) ==
    IF disposable.kind = "backgroundColor"
    THEN [fileElement EXCEPT ![disposable.row].backgroundColor = ""]
    ELSE [fileElement EXCEPT ![disposable.row].children =
              SelectSeq(@, LAMBDA node : node.id # disposable.node)]

\* mergeDisposables(...disposables).dispose(): each disposable in order.
RECURSIVE mergeDisposables(_, _)
mergeDisposables(fileElement, parts) ==
    IF parts = <<>> THEN fileElement
    ELSE mergeDisposables(dispose(fileElement, Head(parts)), Tail(parts))

\* applyDecoration({fileElement, decoration}): it throws, leaving the file element
\* as it was, or mutates the line element and returns the merged disposable.
Thrown(kind, ghLineNumber, fileElement) ==
    [threw |-> TRUE, error |-> [kind |-> kind, line |-> ghLineNumber],
     fileElement |-> fileElement, disposables |-> <<>>]

Decorated(fileElement, decoration, row, id) ==
    LET coloured ==
            IF decoration.backgroundColor # ""
            THEN [fileElement EXCEPT ![row].backgroundColor = decoration.backgroundColor]
            ELSE fileElement
        annotated ==
            IF decoration.after.defined
            THEN [coloured EXCEPT ![row].children =
                      Append(@, Annotation(decoration.after, id))]
            ELSE coloured
        background ==
            IF decoration.backgroundColor # ""
            THEN <<[kind |-> "backgroundColor", row |-> row, node |-> 0]>>
            ELSE <<>>
        annotation ==
            IF decoration.after.defined
            THEN <<[kind |-> "annotation", row |-> row, node |-> id]>>
            ELSE <<>>
    IN  [threw |-> FALSE, error |-> [kind |-> "", line |-> 0],
         fileElement |-> annotated, disposables |-> background \o annotation]

applyDecorationFirstMatch(fileElement, decoration, id) ==
    LET ghLineNumber == decoration.line + 1
        lineNumberElements == querySelectorAll(fileElement, ghLineNumber)
    IN  IF Len(lineNumberElements) = 0
        THEN Thrown("matched", ghLineNumber, fileElement)
        ELSE IF ~fileElement[lineNumberElements[1]].hasLine
        THEN Thrown("line is falsy", ghLineNumber, fileElement)
        ELSE Decorated(fileElement, decoration, lineNumberElements[1], id)
applyDecoration(fileElement, decoration, id) ==
    LET ghLineNumber == decoration.line + 1
        lineNumberElements == querySelectorAll(fileElement, ghLineNumber)
    IN  IF Len(lineNumberElements) # 1
        THEN Thrown("matched", ghLineNumber, fileElement)
        ELSE IF ~fileElement[lineNumberElements[1]].hasLine
        THEN Thrown("line is falsy", ghLineNumber, fileElement)
        ELSE Decorated(fileElement, decoration, lineNumberElements[1], id)

\* A caller applies a decoration to the host's file element and keeps the result.
ApplyDecoration(decoration) ==
    LET applied == applyDecoration(host, decoration, Len(disposables) + 1)
    IN  /\ Len(disposables) < MaxDecorations
        /\ host' = applied.fileElement
        /\ disposables' = Append(disposables,
                [decoration |-> decoration, before |-> host, applied |-> applied,
                 disposed |-> 0])
        /\ UNCHANGED <<environment, filtered, clients, clientEntries, posted, listeners,
                       answers, portsConnected, sourcegraphURL, webSockets,
                       consoleErrors, controlChannels, postedOn, messageRequests, wiringVars, filterCalls>>

\* The caller disposes the disposable applyDecoration returned, a first or a second
\* time.
Dispose(d) ==
    /\ d \in 1..Len(disposables)
    /\ ~disposables[d].applied.threw
    /\ disposables[d].disposed < 2
    /\ host' = mergeDisposables(host, disposables[d].applied.disposables)
    /\ disposables' = [disposables EXCEPT ![d].disposed = @ + 1]
    /\ UNCHANGED <<environment, filtered, clients, clientEntries, posted, listeners,
                   answers, portsConnected, sourcegraphURL, webSockets,
                   consoleErrors, controlChannels, postedOn, messageRequests, wiringVars, filterCalls>>

(***************************************************************************)
(* Specification of the transport factory: clients are created and         *)
(* activated for extensions of every manifest and platform kind, the relay *)
(* answers, the Sourcegraph URL is emitted and completes, WebSockets open  *)
(* or fail.                                                                *)
(***************************************************************************)
ExtW == CXPExtension("W", TRUE, Manifest(<<"*">>, "websocket"))
ExtT == CXPExtension("T", TRUE, Manifest(<<"*">>, "tcp"))
ExtU == CXPExtension("U", TRUE, Manifest(<<"*">>, "docker"))
ExtS == CXPExtension("S", TRUE, Manifest(<<"*">>, "bundle"))

FactoryExtensions == {ExtW, ExtS, ExtT, ExtU, ExtN, ExtE}

\* new Client(...) for the extension followed by client.activate(), which calls
\* clientOptions.createMessageTransports.
clientActivate(extension) ==
    LET n == Len(clients)
        client == activate(NewClient(extension, Root), sourcegraphURL)
        made == createMessageTransports(extension)
        relay == createPlatformMessageTransports(controlChannels)
    IN  /\ n < MaxClients
        /\ clients' = Append(clients, client)
        /\ clientEntries' = clientEntries \cup {n + 1}
        /\ IF made.result = "relay"
           THEN /\ posted' = Append(posted, ControlRequest(extension))
                /\ postedOn' = Append(postedOn, relay.channel)
                /\ controlChannels' = relay.channels
                /\ listeners' = Append(listeners, n + 1)
                /\ answers' = Append(answers, "none")
           ELSE UNCHANGED <<posted, postedOn, controlChannels, listeners, answers>>
        /\ webSockets' = IF client.transport.status = "socket"
                         THEN Append(webSockets,
                                     BridgeURL(sourcegraphURL.value, extension, Root))
                         ELSE webSockets
        /\ UNCHANGED <<environment, filtered, portsConnected, sourcegraphURL,
                       consoleErrors, uiVars, wiringVars, filterCalls>>

FactoryNext ==
    \/ \E x \in FactoryExtensions : clientActivate(x)
    \/ \E i \in 1..MaxClients, kind \in {"portName", "error"} : CONTROLonMessage(i, kind)
    \/ \E urlString \in BaseOrigins : sourcegraphURLNext(urlString)
    \/ sourcegraphURLComplete
    \/ \E c \in 1..MaxClients, opened \in BOOLEAN : WebSocketSettled(c, opened)

FactorySpec == Init /\ [][FactoryNext]_vars

(***************************************************************************)
(* Specification of the notification dialogs.                              *)
(***************************************************************************)
MessageNext ==
    \E actions \in ActionLists, value \in PromptValues :
        showMessageRequest(actions, value)

MessageSpec == Init /\ [][MessageNext]_vars

(***************************************************************************)
(* Specification of the decoration renderer: the host page is drawn, and   *)
(* decorations are applied to it and disposed.                             *)
(***************************************************************************)
DecorationInit ==
    /\ environment = EMPTY_ENVIRONMENT
    /\ filtered = EMPTY_ENVIRONMENT
    /\ clients = <<>>
    /\ clientEntries = {}
    /\ posted = <<>>
    /\ listeners = <<>>
    /\ answers = <<>>
    /\ portsConnected = 0
    /\ sourcegraphURL = [value |-> NoURL, completed |-> FALSE]
    /\ webSockets = <<>>
    /\ consoleErrors = <<>>
    /\ controlChannels = 1
    /\ postedOn = <<>>
    /\ messageRequests = <<>>
    /\ host \in FileElements
    /\ disposables = <<>>
    /\ WiringInit
    /\ filterCalls = <<>>

DecorationNext ==
    \/ \E decoration \in Decorations : ApplyDecoration(decoration)
    \/ \E d \in 1..MaxDecorations : Dispose(d)

DecorationSpec == DecorationInit /\ [][DecorationNext]_vars

\* The transport factory when the browser eventually settles every WebSocket it
\* has created.  Nothing obliges the Sourcegraph URL source to emit or to complete.
FactoryLiveSpec ==
    /\ Init
    /\ [][FactoryNext]_vars
    /\ \A c \in 1..MaxClients, opened \in BOOLEAN : WF_vars(WebSocketSettled(c, opened))

(***************************************************************************)
(* Specification of the registry wiring: the two sources emit, fail and    *)
(* complete, in any order.                                                 *)
(***************************************************************************)
WiringNext ==
    \/ \E list \in ConfiguredLists : viewerConfiguredExtensionsNext(list)
    \/ \E context \in RootsAndComponents : rootAndComponentNext(context)
    \/ \E source \in Sources : SourceError(source, "network error")
    \/ \E source \in Sources : SourceComplete(source)

WiringSpec == Init /\ [][WiringNext]_vars

(***************************************************************************)
(* C1: in every reachable state the extension ids that own a live          *)
(* Connection Entry are exactly the ids environmentFilter returns for the  *)
(* stored snapshot: no entry outside that set, none missing, and never two *)
(* entries for one id.                                                     *)
(***************************************************************************)
C1_EntriesMatchFilter ==
    /\ EntryIds = ActiveIds(environment)
    /\ \A c, d \in clientEntries :
          clients[c].extension.id = clients[d].extension.id => c = d

\* After several snapshots: B and C own the entries, A's client was given up, and
\* the snapshot also lists extensions that must not be activated.
C1_Witness ==
    /\ EntryIds = {"B", "C"}
    /\ Len(environment.extensions) > 2
    /\ \E c \in 1..Len(clients) :
          clients[c].extension.id = "A" /\ c \notin clientEntries

(***************************************************************************)
(* C2: when a setEnvironment call changes the filtered set from {A,B} to   *)
(* {B,C}, exactly one entry is created (for C), exactly one is torn down   *)
(* (A's), and B's entry is the same instance with its lifecycle state      *)
(* unchanged.                                                              *)
(***************************************************************************)
C2_Reconciliation ==
    [][(ActiveIds(environment) = {"A", "B"} /\ ActiveIds(environment') = {"B", "C"})
        => LET a == EntryOf("A")
               b == EntryOf("B")
               new == Len(clients) + 1
           IN  /\ Len(clients') = new
               /\ clients'[new].extension.id = "C"
               /\ clients'[new].history = <<"Initial", "Connecting">>
               /\ clientEntries' = {b, new}
               /\ clients'[b] = clients[b]
               /\ clients'[a].unsubscribed /\ ~clients[a].unsubscribed
               /\ clients[a].history[Len(clients[a].history)] = "Active"
                    => clients'[a].history = Append(clients[a].history, "ShuttingDown")
               /\ \A c \in 1..Len(clients) : c # a => clients'[c] = clients[c]
      ]_vars

\* The filtered set is {B,C}: C's entry is the newest client and is connecting, B's
\* older entry is still Active, and A's client, Active before, is shutting down.
C2_Witness ==
    /\ ActiveIds(environment) = {"B", "C"}
    /\ Len(clients) = 3
    /\ clients[3].extension.id = "C" /\ 3 \in clientEntries
    /\ clients[3].history = <<"Initial", "Connecting">>
    /\ \E a, b \in 1..2 :
          /\ clients[a].extension.id = "A" /\ a \notin clientEntries
          /\ State(a) = "ShuttingDown"
          /\ clients[b].extension.id = "B" /\ b \in clientEntries
          /\ State(b) = "Active"

(***************************************************************************)
(* C3: when two or more websocket/bundle activations have requests in      *)
(* flight on the shared control channel, each activation's transport       *)
(* promise is settled only by the response that answers its own request,   *)
(* and resolves with the channel that response names, for every arrival    *)
(* order of the responses.                                                 *)
(***************************************************************************)
C3_SettledByOwnResponse ==
    \A k \in 1..Len(listeners) :
        LET t == clients[listeners[k]].transport
        IN  /\ t.status = "resolved" => (answers[k] = "portName" /\ t.port = k)
            /\ t.status = "rejected" => answers[k] = "error"

(***************************************************************************)
(* C4: a handshake failure of one extension's connection moves only that   *)
(* connection's entry to ActivateFailed and reports the error with that    *)
(* extension's id; every other client, the entries and the stored          *)
(* snapshot are left as they were.                                         *)
(***************************************************************************)
C4_HandshakeFailureIsolated ==
    [][consoleErrors' # consoleErrors
        => \E c \in 1..Len(clients) :
              /\ clients[c].history[Len(clients[c].history)] = "Initializing"
              /\ clients'[c] =
                    [clients[c] EXCEPT !.history = Append(@, "ActivateFailed")]
              /\ consoleErrors' =
                    Append(consoleErrors, <<clients[c].extension.id, "initialize failed">>)
              /\ Len(clients') = Len(clients)
              /\ \A d \in 1..Len(clients) : d # c => clients'[d] = clients[d]
              /\ clientEntries' = clientEntries
              /\ environment' = environment
              /\ filtered' = filtered
      ]_vars

\* One entry failed its handshake and was reported once, its sibling's entry became
\* Active, and a later snapshot was still reconciled around the failed entry.
C4_Witness ==
    /\ Len(consoleErrors) = 1
    /\ \E c, d \in clientEntries :
          /\ State(c) = "ActivateFailed"
          /\ consoleErrors[1][1] = clients[c].extension.id
          /\ State(d) = "Active"
    /\ \E e \in 1..Len(clients) : clients[e].unsubscribed

(***************************************************************************)
(* C5: every lifecycle-state change of a connection is one of              *)
(* Initial->Connecting, Connecting->Initializing, Initializing->Active,    *)
(* Initializing->ActivateFailed, Active->ShuttingDown,                     *)
(* ShuttingDown->Stopped; a connection in Stopped or ActivateFailed never  *)
(* changes state again.                                                    *)
(***************************************************************************)
LifecycleTransitions ==
    {<<"Initial", "Connecting">>, <<"Connecting", "Initializing">>,
     <<"Initializing", "Active">>, <<"Initializing", "ActivateFailed">>,
     <<"Active", "ShuttingDown">>, <<"ShuttingDown", "Stopped">>}

C5_LifecycleTransitions ==
    \A c \in 1..Len(clients) :
        LET h == clients[c].history
        IN  /\ h[1] = "Initial"
            /\ \A k \in 1..(Len(h) - 1) : <<h[k], h[k + 1]>> \in LifecycleTransitions

\* One client went all the way to Stopped and another ended in ActivateFailed.
C5_Witness ==
    /\ \E c \in 1..Len(clients) :
          clients[c].history = <<"Initial", "Connecting", "Initializing", "Active",
                                 "ShuttingDown", "Stopped">>
    /\ \E c \in 1..Len(clients) :
          clients[c].history = <<"Initial", "Connecting", "Initializing",
                                 "ActivateFailed">>

(***************************************************************************)
(* C6: once a Connection Entry has reached Stopped it changes no more, and *)
(* when a later snapshot activates the same extension id again a brand-new *)
(* entry starting at Initial is created; the stopped entry is never an     *)
(* entry of the controller again.                                          *)
(***************************************************************************)
C6_StoppedIsTerminal ==
    [][/\ \A c \in 1..Len(clients) :
            clients[c].history[Len(clients[c].history)] = "Stopped"
                => (clients'[c] = clients[c] /\ c \notin clientEntries')
       /\ \A c \in clientEntries' \ clientEntries :
            /\ c > Len(clients)
            /\ clients'[c].history[1] = "Initial"
      ]_vars

\* An extension's first client is Stopped and a second client of the same
\* extension owns the entry.
C6_Witness ==
    \E c, d \in 1..Len(clients) :
        /\ c < d
        /\ clients[c].extension.id = clients[d].extension.id
        /\ State(c) = "Stopped"
        /\ c \notin clientEntries
        /\ d \in clientEntries
        /\ clients[d].history[1] = "Initial"

(***************************************************************************)
(* The end-to-end scenario: the snapshot with the single extension B       *)
(* (enabled, activationEvents ["*"], websocket) and no component.          *)
(***************************************************************************)
\* The scenario: the first snapshot the controller was given is SingleExtension.
Scenario ==
    /\ environment = SingleExtension
    /\ Len(clients) = 1

ScenarioRequested ==
    Scenario =>
        /\ ActiveIds(environment) = {"B"}
        /\ clientEntries = {1}
        /\ clients[1].extension = ExtB
        /\ posted = <<[extensionID |-> "B", platform |-> "websocket"]>>
        /\ listeners = <<1>>

ScenarioAnswered ==
    /\ Scenario
    /\ answers = <<"portName">>

\* In the scenario the filter includes B and one request for B is posted on the
\* control channel; once the relay has answered with a channel name the
\* connection for B eventually reaches Active.
C7_EndToEnd ==
    /\ []ScenarioRequested
    /\ ScenarioAnswered ~> (Len(clients) >= 1 /\ State(1) = "Active")

(***************************************************************************)
(* C7: in the scenario the filter includes B and the controller posts one  *)
(* request for B on the control channel.  Once the relay has answered with *)
(* a channel name, the dedicated channel is opened, B's transport is       *)
(* resolved on it and the connection has left Connecting for Initializing; *)
(* from there it becomes Active when, and only when, B's server accepts    *)
(* the initialize request, and ActivateFailed when the server refuses it.  *)
(* While the server does not answer, the connection stays Initializing.    *)
(***************************************************************************)
C7_EndToEndUpToHandshake ==
    /\ []ScenarioRequested
    /\ [](ScenarioAnswered =>
            /\ portsConnected = 1
            /\ clients[1].transport = [status |-> "resolved", port |-> 1,
                                       closed |-> FALSE]
            /\ SubSeq(clients[1].history, 1, 3)
                    = <<"Initial", "Connecting", "Initializing">>
            /\ State(1) \in {"Initializing", "Active", "ActivateFailed"})
    /\ [][(ScenarioAnswered /\ State(1) = "Initializing") =>
            /\ InitializeResult(1, TRUE) => State(1)' = "Active"
            /\ InitializeResult(1, FALSE) => State(1)' = "ActivateFailed"
            /\ State(1)' # State(1)
                  => (InitializeResult(1, TRUE) \/ InitializeResult(1, FALSE))]_vars

\* In the scenario the relay has answered and B's connection is Active.
C7_Witness ==
    /\ ScenarioAnswered
    /\ State(1) = "Active"
    /\ portsConnected = 1

(***************************************************************************)
(* Specification of the activation filter on its own: a snapshot is drawn, *)
(* environmentFilter is applied to it, and the controller is given it.     *)
(***************************************************************************)
Injective(s) == \A i, j \in 1..Len(s) : s[i] = s[j] => i = j

FilterIds == {"A", "B"}

FilterManifests ==
    {NullManifest, ErrorManifest("fetch failed")}
        \cup {Manifest(ev, "websocket") : ev \in SeqsUpTo(ActivationEvents, MaxEvents)}

FilterExtensionLists ==
    UNION {
        {[i \in 1..Len(ids) |-> CXPExtension(ids[i], f[i][1], f[i][2])] :
            f \in [1..Len(ids) -> BOOLEAN \X FilterManifests]} :
        ids \in {s \in SeqsUpTo(FilterIds, MaxExtensions) : Injective(s)}}

FilterInputs ==
    {[root |-> r, component |-> c, extensions |-> l] :
        r \in {"", Root}, c \in Components, l \in FilterExtensionLists}

\* Marks that environmentFilter has not been applied yet.
Unfiltered == [root |-> "unfiltered", component |-> NoComponent, extensions |-> <<>>]

FilterInit ==
    /\ environment \in FilterInputs
    /\ filtered = Unfiltered
    /\ clients = <<>>
    /\ clientEntries = {}
    /\ posted = <<>>
    /\ listeners = <<>>
    /\ answers = <<>>
    /\ portsConnected = 0
    /\ sourcegraphURL = [value |-> NoURL, completed |-> FALSE]
    /\ webSockets = <<>>
    /\ consoleErrors = <<>>
    /\ controlChannels = 1
    /\ postedOn = <<>>
    /\ UIInit
    /\ WiringInit
    /\ filterCalls = <<>>

ApplyFilter ==
    /\ filtered = Unfiltered
    /\ filtered' = environmentFilter(environment)
    /\ UNCHANGED <<environment, clients, clientEntries, posted, listeners, answers,
                   portsConnected, sourcegraphURL, webSockets, consoleErrors,
                   controlChannels, postedOn, uiVars, wiringVars, filterCalls>>

\* The controller is given the snapshot.
FilterReconcile ==
    /\ filtered # Unfiltered
    /\ clients = <<>>
    /\ setEnvironment(environment)

FilterNext ==
    \/ ApplyFilter
    \/ FilterReconcile

FilterSpec == FilterInit /\ [][FilterNext]_vars

Applied == filtered # Unfiltered

\* The extensions of the drawn snapshot, and those the filter returned.
Input == Range(environment.extensions)
Output == Range(filtered.extensions)

HasWildcard(x) == "*" \in Range(x.manifest.activationEvents)

(***************************************************************************)
(* C8: for every snapshot, environmentFilter never includes an extension   *)
(* whose isEnabled is false, whatever its manifest and activation events   *)
(* and whatever the active component.                                      *)
(***************************************************************************)
C8_DisabledNeverIncluded ==
    Applied =>
        /\ \A x \in Input : ~x.isEnabled => x \notin Output
        /\ \A y \in Output : y.isEnabled

\* A disabled extension with a wildcard manifest was left out while another
\* extension of the same snapshot was kept.
C8_Witness ==
    /\ Applied
    /\ \E x \in Input : ~x.isEnabled /\ x.manifest.kind = "valid" /\ HasWildcard(x)
    /\ Output # {}

(***************************************************************************)
(* C9: for every snapshot, environmentFilter excludes every extension      *)
(* whose manifest is null or an error value, even when it is enabled, and  *)
(* so the controller never creates a Connection Entry for one.             *)
(***************************************************************************)
C9_NoManifestNeverIncluded ==
    /\ Applied =>
          /\ \A x \in Input : x.manifest.kind \in {"null", "error"} => x \notin Output
          /\ \A y \in Output : y.manifest.kind = "valid"
    /\ \A c \in 1..Len(clients) : clients[c].extension.manifest.kind = "valid"

\* The controller was given a snapshot with an enabled extension whose manifest is
\* an error value and created an entry for its sibling alone.
C9_Witness ==
    /\ Applied
    /\ \E x \in Input : x.isEnabled /\ x.manifest.kind = "error"
    /\ Len(clients) = 1
    /\ clientEntries = {1}

(***************************************************************************)
(* C10: every enabled extension with a valid manifest whose activation     *)
(* events contain "*" is included, whatever the active component is: any   *)
(* language identifier, or no component at all.                            *)
(***************************************************************************)
C10_WildcardAlwaysIncluded ==
    Applied =>
        \A x \in Input :
            (x.isEnabled /\ x.manifest.kind = "valid" /\ HasWildcard(x))
                => x \in Output

\* With no component, an extension whose wildcard comes after a language event was
\* included.
C10_Witness ==
    /\ Applied
    /\ environment.component = NoComponent
    /\ \E x \in Output : x.manifest.activationEvents = <<OnLanguage("go"), "*">>

LanguageOnly(x) ==
    /\ x.isEnabled
    /\ x.manifest.kind = "valid"
    /\ ~HasWildcard(x)

(***************************************************************************)
(* C11: an enabled extension with a valid manifest whose activation events *)
(* are only onLanguage:X entries is included exactly when there is an      *)
(* active component and its language identifier is one of those X; it is   *)
(* left out when the language differs from every X and when there is no    *)
(* component.                                                              *)
(***************************************************************************)
C11_LanguageOnlyIncludedOnMatch ==
    Applied =>
        \A x \in Input :
            LanguageOnly(x) =>
                (x \in Output <=>
                    /\ ~environment.component.isNull
                    /\ OnLanguage(environment.component.languageId)
                            \in Range(x.manifest.activationEvents))

\* With a go component, the extension for go was included and the enabled
\* extension for python alone was left out.
C11_Witness ==
    /\ Applied
    /\ environment.component = Component("go")
    /\ \E x \in Output : x.manifest.activationEvents = <<OnLanguage("go")>>
    /\ \E x \in Input \ Output :
            x.isEnabled /\ x.manifest.activationEvents = <<OnLanguage("python")>>

(***************************************************************************)
(* Specification of a caller that applies environmentFilter several times, *)
(* to snapshots of its choice and to outputs the filter returned earlier.  *)
(***************************************************************************)
RefilterInputs ==
    {Snapshot(l, c) : l \in {Registry, <<ExtA, ExtC>>, <<ExtD, ExtB>>},
                      c \in Components}

\* environmentFilter(s), the call recorded with its result.
FilterSnapshot(s) ==
    /\ Len(filterCalls) < MaxFilterCalls
    /\ filterCalls' = Append(filterCalls, [input |-> s, output |-> environmentFilter(s)])
    /\ UNCHANGED <<environment, filtered, clients, clientEntries, posted, listeners,
                   answers, portsConnected, sourcegraphURL, webSockets, consoleErrors,
                   controlChannels, postedOn, uiVars, wiringVars>>

\* environmentFilter applied to the output of its i-th call.
FilterOutput(i) ==
    /\ i \in 1..Len(filterCalls)
    /\ FilterSnapshot(filterCalls[i].output)

RefilterNext ==
    \/ \E s \in RefilterInputs : FilterSnapshot(s)
    \/ \E i \in 1..MaxFilterCalls : FilterOutput(i)

RefilterSpec == Init /\ [][RefilterNext]_vars

Unsupported(x) ==
    /\ x.manifest.kind = "valid"
    /\ x.manifest.platform \notin {"websocket", "tcp", "bundle"}

UnsupportedError(x) ==
    "Unable to connect to CXP extension " \o Quoted(x.id) \o ": type "
        \o Quoted(x.manifest.platform) \o " is not supported"

(***************************************************************************)
(* C13: activating a client for an extension whose manifest has an         *)
(* unrecognized platform kind returns a promise rejected with the          *)
(* unsupported-platform error, and the call opens nothing: no message is   *)
(* posted on the control channel, no listener is added, no dedicated       *)
(* channel is connected and no WebSocket is created.                       *)
(***************************************************************************)
C13_UnsupportedPlatformRejects ==
    [][\A x \in FactoryExtensions :
          (Unsupported(x) /\ clientActivate(x)) =>
              /\ createMessageTransports(x)
                    = [result |-> "reject", error |-> UnsupportedError(x)]
              /\ Last(clients').transport.status = "rejected"
              /\ UNCHANGED <<posted, postedOn, controlChannels, listeners, answers,
                             portsConnected, webSockets, wiringVars>>]_vars

\* A client for the docker extension was activated after a relay request had been
\* posted, and its promise is rejected while that request is still the only one.
C13_Witness ==
    /\ Len(clients) = 2
    /\ Unsupported(clients[2].extension)
    /\ clients[2].transport.status = "rejected"
    /\ Len(posted) = 1
    /\ webSockets = <<>>

ManifestError(x) ==
    "unable to connect to extension " \o Quoted(x.id) \o
        (IF x.manifest.kind = "null" THEN ": no manifest found"
         ELSE ": invalid manifest: " \o x.manifest.message)

(***************************************************************************)
(* C14: a client activated for an extension with a null manifest fails     *)
(* with the no-manifest error, one activated for an extension with an      *)
(* error-valued manifest fails with the invalid-manifest error carrying    *)
(* the inner message; either failure is the rejection of the promise the   *)
(* factory returns, nothing is posted on the control channel for the       *)
(* extension and no WebSocket is opened for it.                            *)
(***************************************************************************)
C14_ManifestFailureRejectsPromise ==
    \A c \in 1..Len(clients) :
        LET x == clients[c].extension
        IN  x.manifest.kind \in {"null", "error"} =>
                /\ createMessageTransports(x)
                      = [result |-> "reject", error |-> ManifestError(x)]
                /\ clients[c].transport.status = "rejected"
                /\ c \notin Range(listeners)
                /\ \A i \in 1..Len(posted) : posted[i].extensionID # x.id
                /\ \A i \in 1..Len(webSockets) : webSockets[i].mode # x.id

(***************************************************************************)
(* C15: exactly one relay control channel is ever opened: the number of    *)
(* control channels stays one, and every websocket or bundle request,      *)
(* however many are made, is posted on that channel.                       *)
(***************************************************************************)
C15_OneControlChannel ==
    /\ controlChannels = 1
    /\ Len(postedOn) = Len(posted)
    /\ \A i \in 1..Len(postedOn) : postedOn[i] = 1

\* Three relay requests were posted, for websocket and for bundle extensions.
C15_Witness ==
    /\ Len(posted) = 3
    /\ \E i \in 1..3 : posted[i].platform = "websocket"
    /\ \E i \in 1..3 : posted[i].platform = "bundle"

(***************************************************************************)
(* C16: an {error} message received on the control channel rejects the     *)
(* activation whose request it answers, and leaves every other activation, *)
(* pending ones included, as it was: neither rejected nor resolved.        *)
(***************************************************************************)
C16_ErrorRejectsOnlyItsActivation ==
    [][\A i \in 1..MaxClients :
          CONTROLonMessage(i, "error") =>
              /\ clients'[listeners[i]].transport.status = "rejected"
              /\ \A c \in 1..Len(clients) :
                    c # listeners[i] => clients'[c] = clients[c]]_vars

\* The WebSockets opened for the extension, and the clients activated for it.
WebSocketsFor(x) == {i \in 1..Len(webSockets) : webSockets[i].mode = x.id}
ClientsFor(x) == {c \in 1..Len(clients) : clients[c].extension.id = x.id}

(***************************************************************************)
(* C20: the factory dispatches on the platform kind.  For websocket and    *)
(* for bundle, each activation posts exactly one request, carrying the     *)
(* extension id and the platform descriptor, on the control channel, and   *)
(* opens no WebSocket.  For tcp, nothing is posted on the control channel  *)
(* and, the base origin being known, each activation has opened exactly    *)
(* one WebSocket, to the bridge endpoint.                                  *)
(***************************************************************************)
C20_DispatchOnPlatformKind ==
    \A c \in 1..Len(clients) :
        LET x == clients[c].extension
            requests == {k \in 1..Len(listeners) : listeners[k] = c}
        IN  /\ (x.manifest.kind = "valid" /\ x.manifest.platform \in {"websocket", "bundle"}) =>
                /\ Cardinality(requests) = 1
                /\ \A k \in requests :
                      /\ posted[k] = [extensionID |-> x.id, platform |-> x.manifest.platform]
                      /\ postedOn[k] = 1
                /\ WebSocketsFor(x) = {}
            /\ (x.manifest.kind = "valid" /\ x.manifest.platform = "tcp") =>
                /\ requests = {}
                /\ \A k \in 1..Len(posted) : posted[k].extensionID # x.id
                /\ sourcegraphURL.value # NoURL =>
                      /\ Cardinality(WebSocketsFor(x)) = Cardinality(ClientsFor(x))
                      /\ \A i \in WebSocketsFor(x) :
                            /\ webSockets[i].pathname = "/.api/lsp"
                            /\ webSockets[i].host = sourcegraphURL.value.host
                            /\ webSockets[i].protocol \in {"ws:", "wss:"}

(***************************************************************************)
(* C17: for every notification request the handler calls the request's     *)
(* resolve callback exactly once: with null when no actions are offered or *)
(* when the user's response equals no action title, and otherwise with an  *)
(* offered action whose title equals the response.                         *)
(***************************************************************************)
C17_ResolvedExactlyOnce ==
    \A i \in 1..Len(messageRequests) :
        LET r == messageRequests[i]
            offered == Range(r.actions.items)
            matching == {a \in offered : ~r.value.cancelled /\ a.title = r.value.text}
        IN  /\ Len(r.handled.resolved) = 1
            /\ IF ~r.actions.defined \/ offered = {} \/ matching = {}
               THEN r.handled.resolved[1] = <<>>
               ELSE \E a \in matching : r.handled.resolved[1] = <<a>>

\* One request was answered with the title of its second action, another with a
\* text that is no title.
C17_Witness ==
    /\ Len(messageRequests) = 2
    /\ \E i \in 1..2 :
          /\ Len(messageRequests[i].actions.items) = 2
          /\ messageRequests[i].handled.resolved = << <<ActionItem("No", 2)>> >>
    /\ \E i \in 1..2 :
          /\ Len(messageRequests[i].actions.items) = 2
          /\ messageRequests[i].value = Entered("Maybe")
          /\ messageRequests[i].handled.resolved = << <<>> >>

\* Decoration d was applied, and since then it alone has been disposed.
AppliedThenDisposed(d) ==
    /\ d = Len(disposables)
    /\ ~disposables[d].applied.threw
    /\ disposables[d].disposed > 0
    /\ \A e \in 1..(d - 1) : disposables[e].disposed = 0

(***************************************************************************)
(* C18: applying a decoration and then disposing the returned disposable   *)
(* restores the line element's background colour to the value it had       *)
(* before the application, a non-empty one included, and removes the       *)
(* injected annotation node: the file element equals its state before the  *)
(* application.                                                            *)
(***************************************************************************)
C18_DisposeRestoresHost ==
    \A d \in 1..Len(disposables) :
        AppliedThenDisposed(d) => host = disposables[d].before

\* The line-number markers the file element had for the decoration's target line
\* when decoration d was applied.
Markers(d) ==
    Len(querySelectorAll(disposables[d].before, disposables[d].decoration.line + 1))

(***************************************************************************)
(* C19: when the file element contains no line-number marker for the       *)
(* target line (decoration line + 1), or more than one, applyDecoration    *)
(* fails with an error and mutates nothing: no background colour is set    *)
(* and no annotation node is appended.                                     *)
(***************************************************************************)
C19_AmbiguousLineFailsWithoutMutation ==
    \A d \in 1..Len(disposables) :
        Markers(d) # 1 =>
            /\ disposables[d].applied.threw
            /\ disposables[d].applied.error
                  = [kind |-> "matched", line |-> disposables[d].decoration.line + 1]
            /\ disposables[d].applied.fileElement = disposables[d].before
            /\ disposables[d].applied.disposables = <<>>

\* On a file element with two markers for line 1 and none for line 2, a decoration
\* with a background colour and an annotation failed for line 1, and one failed for
\* line 2; the file element is as it was.
C19_Witness ==
    /\ Len(disposables) = 2
    /\ \E d \in 1..2 :
          /\ Markers(d) = 2
          /\ disposables[d].decoration.backgroundColor = "red"
          /\ disposables[d].decoration.after.defined
          /\ disposables[d].applied.threw
    /\ \E d \in 1..2 : Markers(d) = 0 /\ disposables[d].applied.threw
    /\ host = disposables[1].before

\* Client c was activated for a tcp extension and its transport promise is pending.
TcpPending(c) ==
    /\ c \in 1..Len(clients)
    /\ createMessageTransports(clients[c].extension).result = "tcp"
    /\ clients[c].transport.status = "pending"

(***************************************************************************)
(* C21: a tcp activation made before the base origin is known waits, and   *)
(* once the source has supplied a base origin the factory opens the        *)
(* WebSocket and the transport promise leaves the pending state, without   *)
(* any further event from the source, such as its completion.              *)
(***************************************************************************)
C21_TcpOpensOnceOriginKnown ==
    \A c \in 1..MaxClients :
        (TcpPending(c) /\ sourcegraphURL.value # NoURL)
            ~> (c \in 1..Len(clients) /\ clients[c].transport.status # "pending")

\* Client c exists, was unsubscribed, and is in the given lifecycle state.
UnsubscribedIn(c, state) ==
    /\ c \in 1..Len(clients)
    /\ clients[c].unsubscribed
    /\ State(c) = state

(***************************************************************************)
(* C22: a snapshot that no longer activates an extension, arriving while   *)
(* the extension's connection is Connecting (or Initializing), does not    *)
(* cancel the activation: the step takes the entry from the controller and *)
(* leaves the connection's lifecycle and transport promise as they were.   *)
(* The connection may go on as any other does: a channel name from the     *)
(* relay takes it from Connecting to Initializing, the server's acceptance *)
(* takes it from Initializing to Active, and it starts shutting down from  *)
(* no state but Active.  Once it is Active it is eventually Stopped, with  *)
(* its transport closed.                                                   *)
(***************************************************************************)
C22_InFlightActivationCompletes ==
    /\ [][\A c \in 1..MaxClients :
            (/\ c \in 1..Len(clients)
             /\ State(c) \in {"Connecting", "Initializing"}
             /\ ~clients[c].unsubscribed
             /\ clients'[c].unsubscribed)
                => /\ clients'[c].history = clients[c].history
                   /\ clients'[c].transport = clients[c].transport
                   /\ c \notin clientEntries']_vars
    /\ [][\A c \in 1..MaxClients :
            /\ (UnsubscribedIn(c, "Connecting")
                  /\ \E i \in 1..MaxClients : CONTROLonMessage(i, "portName"))
                    => /\ UnsubscribedIn(c, "Initializing")'
                       /\ clients'[c].transport.status = "resolved"
            /\ (UnsubscribedIn(c, "Initializing") /\ InitializeResult(c, TRUE))
                    => UnsubscribedIn(c, "Active")'
            /\ (c \in 1..Len(clients)
                  /\ State(c) # "ShuttingDown"
                  /\ UnsubscribedIn(c, "ShuttingDown")')
                    => /\ State(c) = "Active"
                       /\ ~clients'[c].transport.closed]_vars
    /\ \A c \in 1..MaxClients :
          UnsubscribedIn(c, "Active")
              ~> (UnsubscribedIn(c, "Stopped") /\ clients[c].transport.closed)

\* Three connections were unsubscribed while their activation was in flight: one
\* is still Connecting, one has become Active, and one has gone on to Active and
\* from there to Stopped, its transport closed.
C22_Witness ==
    \E c, d, e \in 1..Len(clients) :
        /\ UnsubscribedIn(c, "Connecting")
        /\ clients[c].transport.status = "pending"
        /\ UnsubscribedIn(d, "Active")
        /\ UnsubscribedIn(e, "Stopped")
        /\ clients[e].transport.closed
        /\ clients[e].history = <<"Initial", "Connecting", "Initializing", "Active",
                                  "ShuttingDown", "Stopped">>

\* The requests the relay has answered with a port name.
SuccessResponses == {i \in 1..Len(answers) : answers[i] = "portName"}

(***************************************************************************)
(* C23: after any sequence of relay requests and responses, the number of  *)
(* dedicated channels opened equals the number of success responses        *)
(* received on the control channel: each success response opens exactly    *)
(* one dedicated channel.                                                  *)
(***************************************************************************)
C23_OneChannelPerSuccessResponse ==
    portsConnected = Cardinality(SuccessResponses)

\* sub is s with some elements left out: same elements, same relative order.
IsSublist(sub, s) ==
    \E f \in [1..Len(sub) -> 1..Len(s)] :
        /\ \A i, j \in 1..Len(sub) : i < j => f[i] < f[j]
        /\ \A i \in 1..Len(sub) : sub[i] = s[f[i]]

(***************************************************************************)
(* C24: environmentFilter changes nothing but the membership of the        *)
(* extension list: the output's root and component are the input's, and    *)
(* the output's extensions are unmodified elements of the input list in    *)
(* the input's relative order, none repeated.                              *)
(***************************************************************************)
C24_OrderPreservingSublist ==
    Applied =>
        /\ filtered.root = environment.root
        /\ filtered.component = environment.component
        /\ DOMAIN filtered = DOMAIN environment
        /\ IsSublist(filtered.extensions, environment.extensions)

\* Both extensions of a snapshot with a root and a component were kept, in order.
C24_Witness ==
    /\ Applied
    /\ environment.root = Root
    /\ ~environment.component.isNull
    /\ Len(filtered.extensions) = 2
    /\ filtered.extensions[1].manifest # filtered.extensions[2].manifest

\* Both sources of the wiring have emitted.
BothEmitted == configuredExtensions.emitted /\ rootAndComponent.emitted

\* A source has emitted, or the wiring has called setEnvironment.
Emission ==
    \/ configuredExtensions' # configuredExtensions
    \/ rootAndComponent' # rootAndComponent
    \/ setEnvironmentCalls' # setEnvironmentCalls

\* The wiring does not call setEnvironment before both the configured-extension
\* stream and rootAndComponent have emitted; from then on every emission of
\* either source makes exactly one call, and the stored snapshot combines the
\* latest extension list with the latest root and component.
C25_EveryEmissionCalls ==
    /\ [](IF BothEmitted
          THEN environment = Combined(configuredExtensions.value, rootAndComponent.value)
          ELSE setEnvironmentCalls = 0 /\ environment = EMPTY_ENVIRONMENT)
    /\ [][Emission
            => /\ setEnvironmentCalls'
                    = setEnvironmentCalls + (IF BothEmitted' THEN 1 ELSE 0)
               /\ (configuredExtensions' # configuredExtensions
                     /\ rootAndComponent.emitted)
                    => /\ environment'.root = rootAndComponent.value.root
                       /\ environment'.component = rootAndComponent.value.component]_vars

(***************************************************************************)
(* C25: the wiring does not call setEnvironment before both the            *)
(* configured-extension stream and rootAndComponent have emitted.  From    *)
(* then on, as long as neither source has failed, every emission of either *)
(* source makes exactly one call, whose snapshot combines the latest       *)
(* extension list with the latest root and component, so that a new        *)
(* extension list never replaces them.  When a source fails the error is   *)
(* logged and the subscription ends: later emissions of the other source   *)
(* make no call and leave the stored snapshot as it was.                   *)
(***************************************************************************)
C25_CombinesLatestWhileSubscribed ==
    /\ [](~BothEmitted => setEnvironmentCalls = 0 /\ environment = EMPTY_ENVIRONMENT)
    /\ []((BothEmitted /\ subscription.subscribed)
            => environment = Combined(configuredExtensions.value,
                                      rootAndComponent.value))
    /\ [][(Emission /\ subscription.subscribed)
            => /\ setEnvironmentCalls'
                    = setEnvironmentCalls + (IF BothEmitted' THEN 1 ELSE 0)
               /\ (configuredExtensions' # configuredExtensions
                     /\ rootAndComponent.emitted)
                    => /\ environment'.root = rootAndComponent.value.root
                       /\ environment'.component = rootAndComponent.value.component]_vars
    /\ [][~subscription.subscribed
            => /\ UNCHANGED <<setEnvironmentCalls, environment, consoleErrors>>
               /\ ~subscription'.subscribed]_vars
    /\ [][\A source \in Sources :
            (subscription.subscribed /\ subscription'[source] = "errored")
                => /\ ~subscription'.subscribed
                   /\ consoleErrors'
                        = Append(consoleErrors, subscribeError("network error"))
                   /\ UNCHANGED <<setEnvironmentCalls, environment>>]_vars

\* After both sources had emitted, two calls were made, the second for a new
\* extension list, and the snapshot kept the root and component; then the
\* configured-extension stream failed, and what rootAndComponent emitted after
\* that reached no snapshot.
C25_Witness ==
    /\ BothEmitted
    /\ setEnvironmentCalls = 2
    /\ subscription.viewerConfiguredExtensions = "errored"
    /\ ~subscription.subscribed
    /\ consoleErrors = <<subscribeError("network error")>>
    /\ ~environment.component.isNull
    /\ environment.root = "git://fork"
    /\ Len(environment.extensions) = Len(Registry)
    /\ rootAndComponent.value.root = Root

====
